---- MODULE Spec2Model ----
(***************************************************************************)
(* Model of tracker_library/export_data.py: the statistics of one cell and *)
(* of a whole culture, the CSV exports of one cell and of a culture, and   *)
(* the spreadsheet exports of a culture.                                   *)
(*                                                                         *)
(* Numbers.  Coordinates and areas are integers.  A length is a fixed      *)
(* point number, in 1/Scale of a unit, rounded down (math.dist returns the *)
(* nearest float).  An angle is in thousandths of a degree.  A true        *)
(* division a / b is kept as the exact fraction [n |-> a, d |-> b].        *)
(* A dictionary is a sequence of <<key, value>> pairs in insertion order.  *)
(***************************************************************************)
EXTENDS Integers, Sequences, FiniteSets, TLC

(* ------------------------------ bounds -------------------------------- *)
MaxCoord == 1       \* coordinates are 0..MaxCoord
MaxFrames == 3      \* frames of a trajectory or an area series
MaxCells == 2       \* cells of a culture
MaxArea == 2        \* areas are 0..MaxArea
MaxTime == 2        \* time_between_frames is 1..MaxTime
MaxRows == 3        \* rows of the .csv file
MaxColumn == 1      \* values of one column of an exported mapping
MaxSheets == 3      \* sheets of the .xlsx file

(* --------------------------- value helpers ---------------------------- *)
Scale == 1000
None == [tag |-> "None"]
List(items) == [tag |-> "list", items |-> items]
IntVal(v) == [tag |-> "int", v |-> v]
StrVal(s) == [tag |-> "str", s |-> s]
Frac(n, d) == [tag |-> "frac", n |-> n, d |-> d]

Placeholder == <<0, 0>>

RECURSIVE SumSeq(_)
SumSeq(s) == IF s = <<>> THEN 0 ELSE Head(s) + SumSeq(Tail(s))

MaxOf(s) == CHOOSE v \in {s[i] : i \in DOMAIN s} : \A i \in DOMAIN s : s[i] <= v
MinOf(s) == CHOOSE v \in {s[i] : i \in DOMAIN s} : \A i \in DOMAIN s : v <= s[i]

Abs(v) == IF v < 0 THEN -v ELSE v

RECURSIVE Gcd(_, _)
Gcd(a, b) == IF b = 0 THEN a ELSE Gcd(b, a % b)

\* floor of the square root of n, by bisection on lo <= sqrt(n) < hi
RECURSIVE SqrtBetween(_, _, _)
SqrtBetween(n, lo, hi) ==
    IF hi - lo <= 1 THEN lo
    ELSE LET mid == (lo + hi) \div 2
         IN IF mid * mid <= n THEN SqrtBetween(n, mid, hi)
                             ELSE SqrtBetween(n, lo, mid)

\* math.dist([px, py], [qx, qy]), in 1/Scale units
Dist(p, q) ==
    LET dx == q[1] - p[1]
        dy == q[2] - p[2]
        d2 == (dx * dx + dy * dy) * Scale * Scale
    IN SqrtBetween(d2, 0, 46340)

\* atan(a / b) in thousandths of a degree, for 0 < a < b in lowest terms
AtanTable ==
    (<<1, 2>> :> 26565) @@ (<<1, 3>> :> 18435) @@ (<<2, 3>> :> 33690) @@
    (<<1, 4>> :> 14036) @@ (<<3, 4>> :> 36870)

\* atan(a / b) for a >= 0, b >= 0, not both 0: a value in 0..90000
AtanQuadrant(a, b) ==
    LET g == Gcd(a, b)
        ra == a \div g
        rb == b \div g
    IN IF ra = 0 THEN 0
       ELSE IF rb = 0 THEN 90000
       ELSE IF ra = rb THEN 45000
       ELSE IF ra < rb THEN AtanTable[<<ra, rb>>]
       ELSE 90000 - AtanTable[<<rb, ra>>]

\* math.atan2(dy, dx) * (180 / math.pi): a value in -180000 < r <= 180000
Atan2Degrees(dy, dx) ==
    IF dx = 0 /\ dy = 0 THEN 0
    ELSE LET base == AtanQuadrant(Abs(dy), Abs(dx))
         IN IF dx >= 0 THEN (IF dy >= 0 THEN base ELSE -base)
            ELSE (IF dy >= 0 THEN 180000 - base ELSE base - 180000)

\* Mutant: the angle without the reflection, (raw mod 360).
UnreflectedAngle(from, to) ==
    Atan2Degrees(to[2] - from[2], to[1] - from[1]) % 360000

\* 360 - ((math.atan2(y - fromy, x - fromx) * (180 / math.pi)) % 360)
ReflectedAngle(from, to) ==
    360000 - (Atan2Degrees(to[2] - from[2], to[1] - from[1]) % 360000)

\* Python's round(n / d) for n >= 0, d > 0: to nearest, a tie to the even one
Round(n, d) ==
    LET q == n \div d
        r == n % d
    IN IF 2 * r < d THEN q
       ELSE IF 2 * r > d THEN q + 1
       ELSE IF q % 2 = 0 THEN q ELSE q + 1

\* Mutant: a lookup whose ninth entry does not wrap to "E".
compass_brackets_unwrapped == <<"E", "NE", "N", "NW", "W", "SW", "S", "SE", "SE">>

compass_brackets == <<"E", "NE", "N", "NW", "W", "SW", "S", "SE", "E">>

\* compass_brackets[round(angle / 45)], the angle being n / d thousandths of a degree
CompassLookup(n, d) == Round(n, d * 45000)

(* ------------------------ dictionary helpers -------------------------- *)
Keys(dict) == {dict[i][1] : i \in DOMAIN dict}
Has(dict, key) == key \in Keys(dict)
Get(dict, key) == dict[CHOOSE i \in DOMAIN dict : dict[i][1] = key][2]

(* ------------------- calc_culture_cell_statistics --------------------- *)
\* One executed iteration of the loop over the positions of a cell: Python's
\* frame index i (0-based), the two points and the distance between them.
StepAt(key, data, i) ==
    [cell |-> key, i |-> i, prev |-> data[i], cur |-> data[i + 1],
     distance |-> Dist(data[i], data[i + 1])]

\* The iterations i = 1..last of the loop that pass the test
\* data[i][0] != 0 or data[i][1] != 0, in order.
RECURSIVE CellSteps(_, _, _)
CellSteps(key, data, last) ==
    IF last < 1 THEN <<>>
    ELSE CellSteps(key, data, last - 1) \o
         (IF data[last + 1][1] # 0 \/ data[last + 1][2] # 0
          THEN <<StepAt(key, data, last)>> ELSE <<>>)

StepDistances(steps) == [j \in DOMAIN steps |-> steps[j].distance]

\* The accumulators after the first k items of positional_data.
RECURSIVE PositionsLoop(_, _, _)
PositionsLoop(positional_data, time_between_frames, k) ==
    IF k = 0
    THEN [err |-> "none", displacements |-> <<>>, final_distances |-> <<>>,
          speeds |-> <<>>, angle_of_direction |-> <<>>, steps |-> <<>>]
    ELSE
      LET acc == PositionsLoop(positional_data, time_between_frames, k - 1)
          key == positional_data[k][1]
          opt == positional_data[k][2]
      IN IF acc.err # "none" \/ opt.tag = "None" THEN acc
         ELSE
           LET data == opt.items
               n == Len(data)
               steps == CellSteps(key, data, n - 1)
               distances == StepDistances(steps)
               final == n >= 2 /\ (data[n][1] # 0 \/ data[n][2] # 0)
           IN IF n = 0 THEN [acc EXCEPT !.err = "IndexError"]
              ELSE IF steps # <<>> /\ time_between_frames = 0
              THEN [acc EXCEPT !.err = "ZeroDivisionError",
                               !.steps = @ \o <<steps[1]>>]
              ELSE [acc EXCEPT
                     !.steps = @ \o steps,
                     !.speeds = @ \o [j \in DOMAIN steps |->
                                       Frac(steps[j].distance, time_between_frames)],
                     !.angle_of_direction = IF final
                         THEN @ \o <<ReflectedAngle(data[1], data[n])>> ELSE @,
                     !.final_distances = IF final
                         THEN @ \o <<Dist(data[1], data[n])>> ELSE @,
                     !.displacements = IF final
                         THEN @ \o <<SumSeq(distances)>> ELSE @]

\* value.index(next(filter(lambda x: x != 0, value))), as a 1-based index
FirstNonZero(value) == value[CHOOSE i \in DOMAIN value :
                               value[i] # 0 /\ \A j \in 1..(i - 1) : value[j] = 0]
\* Mutant: the growth is measured from index 0.
StartIndexZero(value) == 1

StartIndex(value) == CHOOSE i \in DOMAIN value :
                        value[i] = FirstNonZero(value) /\
                        \A j \in 1..(i - 1) : value[j] # FirstNonZero(value)

\* The test of line 447 and the test of line 450.
IsNewSmallest(value, min_cell_size) ==
    MinOf(value) # 0 /\ (min_cell_size.tag = "None" \/ MinOf(value) < min_cell_size.v)
\* Mutant: a cell whose maximum equals the running maximum replaces it.
IsNewLargestOrEqual(value, max_cell_size) == max_cell_size <= MaxOf(value)

IsNewLargest(value, max_cell_size) == max_cell_size < MaxOf(value)

\* The accumulators after the first k items of area_data.
RECURSIVE AreasLoop(_, _)
AreasLoop(area_data, k) ==
    IF k = 0
    THEN [err |-> "none", max_cell_size |-> 0, max_cell_id |-> 0,
          min_cell_size |-> None, min_cell_id |-> 0,
          final_sizes |-> <<>>, growth |-> <<>>]
    ELSE
      LET acc == AreasLoop(area_data, k - 1)
          key == area_data[k][1]
          value == area_data[k][2]
      IN IF acc.err # "none" THEN acc
         ELSE IF value = <<>> THEN [acc EXCEPT !.err = "ValueError"]
         ELSE IF \A i \in DOMAIN value : value[i] = 0
         THEN [acc EXCEPT !.err = "StopIteration"]
         ELSE
           LET smaller == IsNewSmallest(value, acc.min_cell_size)
               larger == IsNewLargest(value, acc.max_cell_size)
           IN [acc EXCEPT
                !.min_cell_size = IF smaller THEN IntVal(MinOf(value)) ELSE @,
                !.min_cell_id = IF smaller THEN key ELSE @,
                !.max_cell_size = IF larger THEN MaxOf(value) ELSE @,
                !.max_cell_id = IF larger THEN key ELSE @,
                !.final_sizes = @ \o <<value[Len(value)]>>,
                !.growth = @ \o <<value[Len(value)] - value[StartIndex(value)]>>]

MovementKeys ==
    {"Average Total Displacement (mm)", "Max Distance Traveled by one Cell (mm)",
     "Min Distance Traveled by one Cell (mm)", "Average Final Distance from Origin (mm)",
     "Average Speed (mm/min)", "Maximum Recorded Speed (mm/min)",
     "Minimum Recorded Speed (mm/min)",
     "Average Angle of Direction between Origin and Final Point (degrees)",
     "Average Compass Direction Moved", "Average Change in Cell Size (mm^2)"}

AlwaysKeys ==
    {"Final Frame's Confluency (%)", "Largest Cell (mm^2)", "Largest Cell's ID",
     "Smallest Cell (mm^2)", "Smallest Cell's ID", "Average Final Size of Cell (mm^2)"}

\* max(speeds) and min(speeds): the speeds share the divisor time_between_frames
SpeedNumerators(speeds) == [j \in DOMAIN speeds |-> speeds[j].n]

\* Lines 465-485: the entries written when len(displacements) != 0, up to the
\* division by len(growth).
MovementStats(p, time_between_frames) ==
    LET angle_sum == SumSeq(p.angle_of_direction)
        angle_len == Len(p.angle_of_direction)
    IN << <<"Average Total Displacement (mm)",
            Frac(SumSeq(p.displacements), Len(p.displacements))>>,
          <<"Max Distance Traveled by one Cell (mm)", IntVal(MaxOf(p.displacements))>>,
          <<"Min Distance Traveled by one Cell (mm)", IntVal(MinOf(p.displacements))>>,
          <<"Average Final Distance from Origin (mm)",
            Frac(SumSeq(p.final_distances), Len(p.final_distances))>>,
          <<"Average Speed (mm/min)",
            Frac(SumSeq(SpeedNumerators(p.speeds)), time_between_frames * Len(p.speeds))>>,
          <<"Maximum Recorded Speed (mm/min)",
            Frac(MaxOf(SpeedNumerators(p.speeds)), time_between_frames)>>,
          <<"Minimum Recorded Speed (mm/min)",
            Frac(MinOf(SpeedNumerators(p.speeds)), time_between_frames)>>,
          <<"Average Angle of Direction between Origin and Final Point (degrees)",
            Frac(angle_sum, angle_len)>>,
          <<"Average Compass Direction Moved",
            StrVal(compass_brackets[CompassLookup(angle_sum, angle_len) + 1])>> >>

\* Lines 490-496: the entries written before the last division.
SizeStats(a, area_of_frame) ==
    << <<"Final Frame's Confluency (%)", Frac(SumSeq(a.final_sizes), area_of_frame)>>,
       <<"Largest Cell (mm^2)", IntVal(a.max_cell_size)>>,
       <<"Largest Cell's ID", IntVal(a.max_cell_id)>>,
       <<"Smallest Cell (mm^2)", a.min_cell_size>>,
       <<"Smallest Cell's ID", IntVal(a.min_cell_id)>> >>

\* The divisors of the divisions of lines 467-498, in the order they are executed;
\* the function stops at the first one that is zero.
ReportDivisors(p, a, area_of_frame) ==
    (IF Len(p.displacements) # 0
     THEN <<Len(p.displacements), Len(p.final_distances), Len(p.speeds),
            Len(p.angle_of_direction), 45, Len(a.growth)>>
     ELSE <<>>) \o <<area_of_frame, Len(a.final_sizes)>>

RECURSIVE UpToFirstZero(_)
UpToFirstZero(s) ==
    IF s = <<>> THEN <<>>
    ELSE IF Head(s) = 0 THEN <<0>> ELSE <<Head(s)>> \o UpToFirstZero(Tail(s))

\* The whole call: what it returns or raises, with the values of its local
\* lists when it ended (steps and divisors record what it executed).
calc_culture_cell_statistics(positional_data, area_data, time_between_frames, area_of_frame) ==
    LET p == PositionsLoop(positional_data, time_between_frames, Len(positional_data))
        a == AreasLoop(area_data, Len(area_data))
        step_divisors == [j \in DOMAIN p.steps |-> time_between_frames]
        divisors == UpToFirstZero(ReportDivisors(p, a, area_of_frame))
        raised(err, divs) ==
            [outcome |-> err, stats |-> <<>>, steps |-> p.steps, divisors |-> divs,
             displacements |-> p.displacements, speeds |-> p.speeds,
             angle_of_direction |-> p.angle_of_direction,
             growth |-> IF p.err = "none" THEN a.growth ELSE <<>>]
    IN IF p.err # "none" THEN raised(p.err, step_divisors)
       ELSE IF a.err # "none" THEN raised(a.err, step_divisors)
       ELSE IF \E j \in DOMAIN divisors : divisors[j] = 0
       THEN raised("ZeroDivisionError", step_divisors \o divisors)
       ELSE [outcome |-> "return",
             stats |-> (IF Len(p.displacements) # 0
                        THEN MovementStats(p, time_between_frames) \o
                             << <<"Average Change in Cell Size (mm^2)",
                                  Frac(SumSeq(a.growth), Len(a.growth))>> >>
                        ELSE <<>>) \o
                       SizeStats(a, area_of_frame) \o
                       << <<"Average Final Size of Cell (mm^2)",
                            Frac(SumSeq(a.final_sizes), Len(a.final_sizes))>> >>,
             steps |-> p.steps, divisors |-> step_divisors \o divisors,
             displacements |-> p.displacements, speeds |-> p.speeds,
             angle_of_direction |-> p.angle_of_direction,
             growth |-> a.growth]

(* ------------------ calc_individual_cell_statistics ------------------- *)
\* Mutant: the distances appended to origin_distances are measured from the
\* previous point.
OriginDistancesFromPrevious(data) ==
    [j \in 1..(Len(data) - 1) |-> Dist(data[j], data[j + 1])]

\* origin_distances after the loop: math.dist([origin_x, origin_y], [x, y]) of
\* every frame after the first (line 271).
OriginDistances(data) ==
    [j \in 1..(Len(data) - 1) |-> Dist(data[1], data[j + 1])]

\* The lists built by the loop of lines 260-281 over data (at least one point).
IndividualLoop(data) ==
    [distances |-> [j \in 1..(Len(data) - 1) |-> Dist(data[j], data[j + 1])],
     origin_distances |-> OriginDistances(data),
     angle_of_direction |-> [j \in 1..(Len(data) - 1) |->
                               ReflectedAngle(data[j], data[j + 1])],
     final_angle |-> IF Len(data) >= 2 THEN ReflectedAngle(data[1], data[Len(data)])
                     ELSE 0,
     \* x and y after the loop: the last point, or 0, 0 if the loop never ran
     last |-> IF Len(data) >= 2 THEN data[Len(data)] ELSE <<0, 0>>]

\* Lines 285-305.
PositionalStats(data, l, time_between_frames) ==
    << <<"Total Displacement (mm)", IntVal(SumSeq(l.distances))>>,
       <<"Final Distance from Origin (mm)", IntVal(Dist(data[1], l.last))>>,
       <<"Maximum Distance from Origin (mm)", IntVal(MaxOf(l.origin_distances))>>,
       <<"Average Distance from Origin (mm)",
         Frac(SumSeq(l.origin_distances), Len(l.origin_distances))>>,
       <<"Maximum Distance Traveled in one Interval (mm)", IntVal(MaxOf(l.distances))>>,
       <<"Maximum Speed (mm/min)", Frac(MaxOf(l.distances), time_between_frames)>>,
       <<"Average Speed (mm/min)",
         Frac(SumSeq(l.distances), time_between_frames * Len(l.distances))>>,
       <<"Average Angle of Direction from Origin (degrees)",
         Frac(SumSeq(l.angle_of_direction), Len(l.angle_of_direction))>>,
       <<"Angle of Direction between Origin and Final Point (degrees)",
         IntVal(l.final_angle)>>,
       <<"Compass Direction Moved",
         StrVal(compass_brackets[CompassLookup(l.final_angle, 1) + 1])>> >>

\* Lines 309-321.
AreaStats(areas) ==
    << <<"Maximum Size (mm^2)", IntVal(MaxOf(areas))>>,
       <<"Minimum Size (mm^2)", IntVal(MinOf(areas))>>,
       <<"Average Size (mm^2)", Frac(SumSeq(areas), Len(areas))>>,
       <<"Change in Cell Size (mm^2)", IntVal(areas[Len(areas)] - areas[1])>>,
       <<"Average Change in Cell Size Between one Interval (mm^2)",
         Frac(SumSeq([j \in 1..(Len(areas) - 1) |-> areas[j + 1] - areas[j]]),
              Len(areas))>> >>

\* The whole call.  data is None or List(points); areas is a sequence.
calc_individual_cell_statistics(data, areas, time_between_frames) ==
    LET raised(err) == [outcome |-> err, stats |-> <<>>]
    IN IF data.tag = "None" THEN raised("Exception: Empy Data Set Given")
       ELSE IF data.items = <<>> THEN raised("IndexError")
       ELSE IF Len(data.items) >= 2 /\ time_between_frames = 0
       THEN raised("ZeroDivisionError")
       ELSE IF Len(data.items) < 2 THEN raised("ValueError")
       ELSE IF areas = <<>> THEN raised("ValueError")
       ELSE LET l == IndividualLoop(data.items)
            IN [outcome |-> "return",
                stats |-> PositionalStats(data.items, l, time_between_frames) \o
                          AreaStats(areas),
                angle_of_direction |-> l.angle_of_direction,
                final_angle |-> l.final_angle,
                origin_distances |-> l.origin_distances,
                distances |-> l.distances]

(* ----------------------- individual_to_csv_file ----------------------- *)
\* A filename is <<stem, extension>>; filename.endswith(ext)
endswith(filename, ext) == filename[2] = ext

\* list(data.keys()) written by csv.writer: one text cell per key
HeaderRow(data) == [c \in DOMAIN data |-> data[c][1]]

\* The row of frame i (1-based): str(data[key][i]) for each key, in order
DataRow(data, i) == [c \in DOMAIN data |-> ToString(data[c][2][i])]

\* The number of rows written by the loop over range(0, num_data_points): it
\* stops with an IndexError at the first frame some column does not have.
RowsWritten(data) ==
    LET num_data_points == Len(data[1][2])
        complete(i) == \A c \in DOMAIN data : i <= Len(data[c][2])
    IN IF \A i \in 1..num_data_points : complete(i) THEN num_data_points
       ELSE (CHOOSE i \in 1..num_data_points :
                ~complete(i) /\ \A j \in 1..(i - 1) : complete(j)) - 1

\* Mutant: the headers are written on every call.
LeadingRowsAlways(data, exists) == <<HeaderRow(data)>>

\* What is written before the data rows: the headers, for a new file only
\* (lines 521-543).
LeadingRows(data, exists) == IF exists THEN <<>> ELSE <<HeaderRow(data)>>

\* The whole call on the file f (NoFile or the rows of the file): the outcome
\* and the file it leaves, which is closed on every way out of the with block.
individual_to_csv_file(filename, data, f) ==
    IF ~endswith(filename, ".csv")
    THEN [outcome |-> "Exception: File must be of type .csv", file |-> f]
    ELSE IF data = <<>> THEN [outcome |-> "IndexError", file |-> f]
    ELSE LET exists == f.tag = "file"
             written == RowsWritten(data)
             rows == [i \in 1..written |-> DataRow(data, i)]
             before == IF exists THEN f.rows ELSE <<>>
         IN [outcome |-> IF written < Len(data[1][2]) THEN "IndexError" ELSE "return",
             file |-> [tag |-> "file",
                       rows |-> before \o LeadingRows(data, exists) \o rows]]

(* ------------------------ culture_to_csv_file ------------------------- *)
\* A headers argument is None or List(labels); None becomes [] (lines 567-570).
HeadersOrEmpty(headers) == IF headers.tag = "None" THEN <<>> ELSE headers.items

\* Mutant: only the extension of the filename is tested.
CultureCsvRefusalByExtension(filename, f) ==
    IF ~endswith(filename, ".csv") THEN "Exception: File must be of type .csv"
    ELSE "none"

\* The tests made before anything else is read (lines 573-576): the error
\* raised, or "none".
CultureCsvRefusal(filename, f) ==
    IF ~endswith(filename, ".csv") THEN "Exception: File must be of type .csv"
    ELSE IF f.tag = "file" THEN "Exception: File already exists"
    ELSE "none"

\* x and y of every coordinate, as csv.writer writes them (lines 599-603)
RECURSIVE FlattenPoints(_)
FlattenPoints(points) ==
    IF points = <<>> THEN <<>>
    ELSE <<ToString(Head(points)[1]), ToString(Head(points)[2])>> \o
         FlattenPoints(Tail(points))

\* The row of one cell: its id, its coordinates, its sizes (lines 595-607)
CultureRow(id, points, sizes) ==
    <<ToString(id)>> \o FlattenPoints(points) \o
    [j \in DOMAIN sizes |-> ToString(sizes[j])]

\* The number of rows written by the loop over ids: it stops with a KeyError at
\* the first id that area_data does not have (line 606).
CultureRowsWritten(positional_data, area_data) ==
    IF \A i \in DOMAIN positional_data : Has(area_data, positional_data[i][1])
    THEN Len(positional_data)
    ELSE (CHOOSE i \in DOMAIN positional_data :
            /\ ~Has(area_data, positional_data[i][1])
            /\ \A j \in 1..(i - 1) : Has(area_data, positional_data[j][1])) - 1

\* The whole call on the file f: the outcome and the file it leaves.  The file
\* is opened for writing once the ids are read, and closed with what was
\* written on every way out of the with block.
culture_to_csv_file(filename, positional_data, area_data, positional_headers, area_headers, f) ==
    LET refusal == CultureCsvRefusal(filename, f)
    IN IF refusal # "none" THEN [outcome |-> refusal, file |-> f]
       ELSE IF positional_data = <<>> THEN [outcome |-> "IndexError", file |-> f]
       ELSE LET written == CultureRowsWritten(positional_data, area_data)
                rows == [i \in 1..written |->
                           CultureRow(positional_data[i][1], positional_data[i][2],
                                      Get(area_data, positional_data[i][1]))]
            IN [outcome |-> IF written < Len(positional_data) THEN "KeyError"
                            ELSE "return",
                file |-> [tag |-> "file",
                          rows |-> <<HeadersOrEmpty(positional_headers) \o
                                     HeadersOrEmpty(area_headers)>> \o rows]]

(* ------------------------ spreadsheet writers ------------------------- *)
\* A workbook file is [tag |-> "workbook", sheets |-> <<sheet, ...>>]; a sheet
\* is its title and its rows of cells.  A title is <<name, n>>: the name as
\* asked for, followed by the number n when n > 0.
Float(v) == [tag |-> "float", v |-> v]
Formula(name, row, col) == [tag |-> "formula", name |-> name, row |-> row, col |-> col]
Title(name) == <<name, 0>>
Sheet(title, rows) == [title |-> title, rows |-> rows]

\* openpyxl.Workbook(): a workbook with one empty sheet titled "Sheet"
Workbook == <<Sheet(Title("Sheet"), <<>>)>>

\* The title wb.create_sheet(sheetname) gives: the name, or the name followed
\* by the next number when a sheet of the workbook has the name.
NewTitle(sheets, sheetname) ==
    LET used == {sheets[i].title[2] : i \in {j \in DOMAIN sheets :
                                              sheets[j].title[1] = sheetname}}
    IN IF used = {} THEN Title(sheetname)
       ELSE <<sheetname, (CHOOSE n \in used : \A m \in used : m <= n) + 1>>

\* not (filename.endswith(".xls") or filename.endswith(".xlsx"))
NotSpreadsheet(filename) == ~(endswith(filename, ".xls") \/ endswith(filename, ".xlsx"))

\* The sheets saved by a writer that renames the default sheet of a new
\* workbook (lines 121-132).
RenamedOrCreated(wb, sheetname, rows) ==
    IF wb.tag = "workbook"
    THEN wb.sheets \o <<Sheet(NewTitle(wb.sheets, sheetname), rows)>>
    ELSE <<Sheet(Title(sheetname), rows)>>

\* The sheets saved by a writer that always calls wb.create_sheet (lines
\* 185-194 and 343-352).
AlwaysCreated(wb, sheetname, rows) ==
    LET sheets == IF wb.tag = "workbook" THEN wb.sheets ELSE Workbook
    IN sheets \o <<Sheet(NewTitle(sheets, sheetname), rows)>>

Saved(sheets) == [tag |-> "workbook", sheets |-> sheets]

\* float(x), float(y) of every coordinate of one cell (lines 149-159)
RECURSIVE FloatPoints(_)
FloatPoints(points) ==
    IF points = <<>> THEN <<>>
    ELSE <<Float(Head(points)[1]), Float(Head(points)[2])>> \o FloatPoints(Tail(points))

\* The header cells (lines 138-141)
HeaderCells(headers) == [i \in DOMAIN headers |-> StrVal(headers[i])]

\* The whole call on the workbook file wb (NoFile or a workbook): nothing is
\* saved before the last line.  A value of data is None or List(points).
coordinates_to_excel_file(filename, data, headers, sheetname, wb) ==
    IF NotSpreadsheet(filename)
    THEN [outcome |-> "Exception: File must be of type .xls or .xlsx", workbook |-> wb]
    ELSE IF \E k \in DOMAIN data : data[k][2].tag = "None"
    THEN [outcome |-> "TypeError", workbook |-> wb]
    ELSE LET rows == <<HeaderCells(HeadersOrEmpty(headers))>> \o
                     [k \in DOMAIN data |->
                        <<IntVal(data[k][1])>> \o FloatPoints(data[k][2].items)]
         IN [outcome |-> "return",
             workbook |-> Saved(RenamedOrCreated(wb, sheetname, rows))]

\* The row of one cell on the sheet of areas: its id, its areas, the formula of
\* its growth and the formula of its greatest change (lines 205-226).
AreaRow(current_row, key, value) ==
    <<IntVal(key)>> \o [j \in DOMAIN value |-> Float(value[j])] \o
    <<Formula("growth", current_row, Len(value) + 2),
      Formula("change", current_row, Len(value) + 3)>>

area_to_excel_file(filename, data, headers, sheetname, wb) ==
    IF NotSpreadsheet(filename)
    THEN [outcome |-> "Exception: File must be of type .xls or .xlsx", workbook |-> wb]
    ELSE LET rows == <<HeaderCells(HeadersOrEmpty(headers))>> \o
                     [k \in DOMAIN data |-> AreaRow(k + 1, data[k][1], data[k][2])]
         IN [outcome |-> "return",
             workbook |-> Saved(AlwaysCreated(wb, sheetname, rows))]

culture_stats_to_excel_file(filename, stats, sheetname, wb) ==
    IF NotSpreadsheet(filename)
    THEN [outcome |-> "Exception: File must be of type .xls or .xlsx", workbook |-> wb]
    ELSE LET rows == <<<<StrVal("Statistic"), StrVal("Value")>>>> \o
                     [k \in DOMAIN stats |-> <<StrVal(stats[k][1]), stats[k][2]>>]
         IN [outcome |-> "return",
             workbook |-> Saved(AlwaysCreated(wb, sheetname, rows))]

\* The whole call (lines 18-22): the three writers save one after the other,
\* and the statistics are computed between the second and the third.
culture_to_excel_file(filename, coordinates, areas, time_between_frames, area_of_frame, coordinate_headers, area_headers, wb) ==
    LET positions == coordinates_to_excel_file(filename, coordinates,
                                               coordinate_headers, "Positions", wb)
        sizes == area_to_excel_file(filename, areas, area_headers, "Areas",
                                    positions.workbook)
        stats == calc_culture_cell_statistics(coordinates, areas, time_between_frames,
                                              area_of_frame)
    IN IF positions.outcome # "return" THEN positions
       ELSE IF sizes.outcome # "return" THEN sizes
       ELSE IF stats.outcome # "return"
       THEN [outcome |-> stats.outcome, workbook |-> sizes.workbook]
       ELSE culture_stats_to_excel_file(filename, stats.stats, "Culture Stats",
                                        sizes.workbook)

(* ------------------------------ inputs -------------------------------- *)
Points(coord) == (0..coord) \X (0..coord)
Trajectories(frames, coord) == UNION {[1..n -> Points(coord)] : n \in 1..frames}
AreaSeries(frames) == UNION {[1..n -> 0..MaxArea] : n \in 1..frames}

\* Cell ids descend in insertion order, so that the first cell of a dictionary
\* is not the one with the least id.
CellId(j) == MaxCells + 1 - j
AsDict(values) == [j \in DOMAIN values |-> <<CellId(j), values[j]>>]

\* One cell: no trajectory, any trajectory of up to MaxFrames frames, or two
\* frames on a wider grid (directions that are no multiple of 45 degrees).
OneCellPositions ==
    {AsDict(<<v>>) : v \in {None} \cup
                           {List(t) : t \in Trajectories(MaxFrames, MaxCoord)}} \cup
    {AsDict(<<List(<<from, to>>)>>) :
        from \in Points(MaxCoord + 1), to \in Points(MaxCoord + 1)}

\* Several cells, tracked in two frames, that leave one point for any points.
SeveralCellPositions ==
    UNION {{AsDict([j \in 1..k |-> List(<<from, to[j]>>)]) :
              from \in Points(MaxCoord), to \in [1..k -> Points(MaxCoord)]} :
           k \in 2..MaxCells}

\* One cell with any area series, or several cells with series of two frames.
OneCellAreas == {AsDict(<<v>>) : v \in AreaSeries(MaxFrames)}
SeveralCellAreas ==
    UNION {{AsDict(v) : v \in [1..k -> AreaSeries(2)]} : k \in 2..MaxCells}

\* The short dictionaries the others are combined with.
FewPositions == {<<>>, AsDict(<<List(<<<<0, 0>>, <<MaxCoord, 0>>>>)>>)}
FewAreas == {<<>>, AsDict(<<<<0, MaxArea>>, <<1>>>>)}

\* Cultures: every position dictionary with a short area dictionary, and every
\* area dictionary with a short position dictionary.
CultureInputs ==
    (({<<>>} \cup OneCellPositions \cup SeveralCellPositions) \X FewAreas) \cup
    (FewPositions \X ({<<>>} \cup OneCellAreas \cup SeveralCellAreas))
Times == 1..MaxTime
FrameAreas == {MaxArea * MaxCells}

\* One cell: no trajectory, an empty one, up to MaxFrames points, or two points
\* on a wider grid, with a short area series; and a short trajectory with any
\* area series.
IndividualInputs ==
    (({None, List(<<>>)} \cup
      {List(t) : t \in Trajectories(MaxFrames, MaxCoord)} \cup
      {List(<<from, to>>) : from \in Points(MaxCoord + 1), to \in Points(MaxCoord + 1)})
     \X {<<0, MaxArea>>}) \cup
    ({List(<<<<0, 0>>, <<MaxCoord, MaxCoord>>>>)} \X AreaSeries(MaxFrames))

\* Mappings given to the CSV export: one named column, or two with the keys
\* not in alphabetical order, each column of up to MaxColumn values; the
\* columns need not be of one length.
ColumnNames == {"X Position", "Y Position"}
Columns == UNION {[1..n -> 0..1] : n \in 0..MaxColumn}
CsvData ==
    {<<>>} \cup
    {<<<<"X Position", c>>>> : c \in Columns} \cup
    {<<<<"Y Position", c1>>, <<"X Position", c2>>>> : c1 \in Columns, c2 \in Columns}

\* A filename is <<stem, extension>>.  Any mapping goes to the .csv path; one
\* mapping goes to a path of another type.
CsvCalls ==
    {[op |-> "individual_to_csv_file", filename |-> <<"cells", ".csv">>, data |-> d] :
     d \in CsvData} \cup
    {[op |-> "individual_to_csv_file", filename |-> <<"cells", ".xlsx">>,
      data |-> <<<<"X Position", <<1>>>>>>]}

\* Cultures given to the CSV export: no cell, one cell or two cells with their
\* coordinates as plain lists, and areas for none, the first or both of them.
CsvPositions ==
    {<<>>} \cup {AsDict([j \in 1..k |-> <<<<0, 0>>, <<MaxCoord, j>>>>]) : k \in 1..2}
CsvAreas == {<<>>, AsDict(<<<<0, MaxArea>>>>), AsDict(<<<<0, MaxArea>>, <<1>>>>)}

\* Any such culture goes to the .csv path without headers; one goes there with
\* headers and one to a path of another type.
CultureCsvCalls ==
    {[op |-> "culture_to_csv_file", filename |-> <<"cells", ".csv">>,
      positional_data |-> p, area_data |-> a,
      positional_headers |-> None, area_headers |-> None] :
     p \in CsvPositions, a \in CsvAreas} \cup
    {[op |-> "culture_to_csv_file", filename |-> <<"cells", ext>>,
      positional_data |-> AsDict(<<<<<<0, 0>>, <<MaxCoord, 1>>>>>>),
      area_data |-> AsDict(<<<<0, MaxArea>>>>),
      positional_headers |-> List(<<"Cell ID", "X", "Y">>),
      area_headers |-> List(<<"Area">>)] : ext \in {".csv", ".xlsx"}}

\* Cultures given to the spreadsheet export: the short dictionaries, and a cell
\* that was never tracked.
ExcelPositions == FewPositions \cup {AsDict(<<None>>)}
ExcelFilenames == {<<"cells", ".xlsx">>, <<"cells", ".csv">>}

CoordinatesCalls ==
    {[op |-> "coordinates_to_excel_file", filename |-> n, data |-> d,
      headers |-> None, sheetname |-> "Positions"] :
     n \in ExcelFilenames, d \in ExcelPositions}

AreaCalls ==
    {[op |-> "area_to_excel_file", filename |-> n, data |-> d,
      headers |-> List(<<"Cell ID">>), sheetname |-> "Areas"] :
     n \in ExcelFilenames, d \in FewAreas}

\* The reports given to the writer of statistics: an empty one and the report
\* of a culture.
ExcelStats ==
    {<<>>, calc_culture_cell_statistics(<<>>, AsDict(<<<<0, MaxArea>>, <<1>>>>),
                                        1, MaxArea * MaxCells).stats}

CultureStatsCalls ==
    {[op |-> "culture_stats_to_excel_file", filename |-> n, stats |-> st,
      sheetname |-> "Culture Stats"] :
     n \in ExcelFilenames, st \in ExcelStats}

CultureExcelCalls ==
    {[op |-> "culture_to_excel_file", filename |-> n, coordinates |-> p, areas |-> a,
      time_between_frames |-> 1, area_of_frame |-> MaxArea * MaxCells,
      coordinate_headers |-> None, area_headers |-> None] :
     n \in ExcelFilenames, p \in ExcelPositions, a \in FewAreas}

(* --------------------------- state machine ---------------------------- *)
VARIABLES
    call,   \* the last call: its name and arguments
    ret,    \* what the last call returned or raised
    file,       \* the rows of the .csv file, or NoFile
    workbook    \* the sheets of the .xlsx file, or NoFile

vars == <<call, ret, file, workbook>>

NoFile == [tag |-> "absent"]

CultureCalls ==
    {[op |-> "calc_culture_cell_statistics",
      positional_data |-> input[1], area_data |-> input[2],
      time_between_frames |-> t, area_of_frame |-> f] :
     input \in CultureInputs, t \in Times, f \in FrameAreas}

IndividualCalls ==
    {[op |-> "calc_individual_cell_statistics",
      data |-> input[1], areas |-> input[2], time_between_frames |-> t] :
     input \in IndividualInputs, t \in Times}

Pending == [outcome |-> "pending"]

\* A caller about to compute the statistics of a culture or of one cell.
Init ==
    /\ call \in CultureCalls \cup IndividualCalls
    /\ ret = Pending
    /\ file = NoFile
    /\ workbook = NoFile

CalcCulture ==
    /\ call.op = "calc_culture_cell_statistics"
    /\ ret = Pending
    /\ ret' = calc_culture_cell_statistics(call.positional_data, call.area_data,
                                           call.time_between_frames, call.area_of_frame)
    /\ UNCHANGED <<call, file, workbook>>

CalcIndividual ==
    /\ call.op = "calc_individual_cell_statistics"
    /\ ret = Pending
    /\ ret' = calc_individual_cell_statistics(call.data, call.areas,
                                              call.time_between_frames)
    /\ UNCHANGED <<call, file, workbook>>

Next == CalcCulture \/ CalcIndividual

Spec == Init /\ [][Next]_vars

(* ------------------------------ exports ------------------------------- *)
\* A caller about to export to a path that does not exist.
InitExport ==
    /\ call = [op |-> "none"]
    /\ ret = [outcome |-> "none"]
    /\ file = NoFile
    /\ workbook = NoFile

FileLen(f) == IF f.tag = "file" THEN Len(f.rows) ELSE 0

IndividualToCsv ==
    \E c \in CsvCalls :
      LET done == individual_to_csv_file(c.filename, c.data, file)
      IN /\ FileLen(done.file) <= MaxRows
         /\ call' = c
         /\ ret' = [outcome |-> done.outcome]
         /\ file' = done.file
         /\ UNCHANGED workbook

CultureToCsv ==
    \E c \in CultureCsvCalls :
      LET done == culture_to_csv_file(c.filename, c.positional_data, c.area_data,
                                      c.positional_headers, c.area_headers, file)
      IN /\ FileLen(done.file) <= MaxRows
         /\ call' = c
         /\ ret' = [outcome |-> done.outcome]
         /\ file' = done.file
         /\ UNCHANGED workbook

NextExport == IndividualToCsv

SpecExport == InitExport /\ [][NextExport]_vars

\* The two exports to the .csv path.
NextCsv == IndividualToCsv \/ CultureToCsv

SpecCsv == InitExport /\ [][NextCsv]_vars

(* ---------------------------- spreadsheets ---------------------------- *)
SheetCount(wb) == IF wb.tag = "workbook" THEN Len(wb.sheets) ELSE 0

\* Each call leaves the workbook file with at most MaxSheets sheets.
CoordinatesToExcel ==
    \E c \in CoordinatesCalls :
      LET done == coordinates_to_excel_file(c.filename, c.data, c.headers,
                                            c.sheetname, workbook)
      IN /\ SheetCount(done.workbook) <= MaxSheets
         /\ call' = c
         /\ ret' = [outcome |-> done.outcome]
         /\ workbook' = done.workbook
         /\ UNCHANGED file

AreaToExcel ==
    \E c \in AreaCalls :
      LET done == area_to_excel_file(c.filename, c.data, c.headers,
                                     c.sheetname, workbook)
      IN /\ SheetCount(done.workbook) <= MaxSheets
         /\ call' = c
         /\ ret' = [outcome |-> done.outcome]
         /\ workbook' = done.workbook
         /\ UNCHANGED file

CultureStatsToExcel ==
    \E c \in CultureStatsCalls :
      LET done == culture_stats_to_excel_file(c.filename, c.stats, c.sheetname,
                                              workbook)
      IN /\ SheetCount(done.workbook) <= MaxSheets
         /\ call' = c
         /\ ret' = [outcome |-> done.outcome]
         /\ workbook' = done.workbook
         /\ UNCHANGED file

CultureToExcel ==
    \E c \in CultureExcelCalls :
      LET done == culture_to_excel_file(c.filename, c.coordinates, c.areas,
                                        c.time_between_frames, c.area_of_frame,
                                        c.coordinate_headers, c.area_headers,
                                        workbook)
      IN /\ SheetCount(done.workbook) <= MaxSheets
         /\ call' = c
         /\ ret' = [outcome |-> done.outcome]
         /\ workbook' = done.workbook
         /\ UNCHANGED file

NextWorkbook ==
    CoordinatesToExcel \/ AreaToExcel \/ CultureStatsToExcel \/ CultureToExcel

SpecWorkbook == InitExport /\ [][NextWorkbook]_vars

\* The exports of a culture and of one cell, to the .csv path and to the .xlsx
\* path.
NextFiles == NextCsv \/ CultureToExcel

SpecFiles == InitExport /\ [][NextFiles]_vars

(* ------------------------------ claims -------------------------------- *)
CultureDone == call.op = "calc_culture_cell_statistics" /\ ret.outcome # "pending"
CultureReturned == call.op = "calc_culture_cell_statistics" /\ ret.outcome = "return"
IndividualDone == call.op = "calc_individual_cell_statistics" /\ ret.outcome # "pending"
IndividualReturned == call.op = "calc_individual_cell_statistics" /\ ret.outcome = "return"

\* A cell produces a displacement when its last frame, not the first, is tracked.
ProducesDisplacement(opt) ==
    /\ opt.tag = "list"
    /\ Len(opt.items) >= 2
    /\ opt.items[Len(opt.items)] # Placeholder

HasNonZero(value) == \E i \in DOMAIN value : value[i] # 0

\* C1: a culture in which no cell produces a displacement, every area series
\* holding a non-zero value, gets a report with the six size keys and none of
\* the movement keys.
C1_NoDisplacementReport ==
    (/\ CultureDone
     /\ \A k \in DOMAIN call.positional_data :
           ~ProducesDisplacement(call.positional_data[k][2])
     /\ \A k \in DOMAIN call.area_data : HasNonZero(call.area_data[k][2]))
    => (/\ ret.outcome = "return"
        /\ AlwaysKeys \subseteq Keys(ret.stats)
        /\ Keys(ret.stats) \cap MovementKeys = {})

\* C2: a step distance and speed is recorded for the frame pair (i-1, i) only
\* when neither point is the placeholder (0, 0).
C2_StepsBetweenTrackedFrames ==
    CultureDone =>
      \A j \in DOMAIN ret.steps :
         ret.steps[j].prev # Placeholder /\ ret.steps[j].cur # Placeholder

\* C3: with time_between_frames > 0 and area_of_frame > 0, no division of the
\* culture statistics has a zero divisor.
C3_NoDivisionByZero ==
    (CultureDone /\ call.time_between_frames > 0 /\ call.area_of_frame > 0)
    => (/\ ret.outcome # "ZeroDivisionError"
        /\ \A j \in DOMAIN ret.divisors : ret.divisors[j] # 0)

\* The non-zero area values of a culture and the first cell holding a value.
AllNonZeroAreas(area_data) ==
    UNION {{area_data[k][2][i] : i \in DOMAIN area_data[k][2]} : k \in DOMAIN area_data} \ {0}
LeastOf(set) == CHOOSE v \in set : \A w \in set : v <= w
FirstCellWith(area_data, v) ==
    area_data[CHOOSE k \in DOMAIN area_data :
                /\ \E i \in DOMAIN area_data[k][2] : area_data[k][2][i] = v
                /\ \A m \in 1..(k - 1) :
                      \A i \in DOMAIN area_data[m][2] : area_data[m][2][i] # v][1]

\* C4: the smallest cell reported is the least non-zero area value of all cells
\* and its id is the first cell, in iteration order, holding that value.
C4_SmallestIsLeastNonZeroArea ==
    (CultureReturned /\ AllNonZeroAreas(call.area_data) # {})
    => LET least == LeastOf(AllNonZeroAreas(call.area_data))
       IN /\ Get(ret.stats, "Smallest Cell (mm^2)") = IntVal(least)
          /\ Get(ret.stats, "Smallest Cell's ID") =
                IntVal(FirstCellWith(call.area_data, least))

\* C5: when every area series holds only zeros, the call returns a report whose
\* smallest cell is None.
C5_AllZeroAreasReturnNone ==
    (/\ CultureDone
     /\ call.area_data # <<>>
     /\ \A k \in DOMAIN call.area_data : ~HasNonZero(call.area_data[k][2]))
    => (ret.outcome = "return" /\ Get(ret.stats, "Smallest Cell (mm^2)") = None)

\* C6: each cell's growth is its last area minus its first non-zero area, and
\* the average change in cell size, when reported, is the sum of the growths
\* divided by the number of cells of the area dictionary.
C6_GrowthFromFirstNonZero ==
    CultureReturned =>
      /\ Len(ret.growth) = Len(call.area_data)
      /\ \A k \in DOMAIN call.area_data :
            LET value == call.area_data[k][2]
            IN \E i \in DOMAIN value :
                  /\ value[i] # 0
                  /\ \A j \in 1..(i - 1) : value[j] = 0
                  /\ ret.growth[k] = value[Len(value)] - value[i]
      /\ Has(ret.stats, "Average Change in Cell Size (mm^2)") =>
            LET avg == Get(ret.stats, "Average Change in Cell Size (mm^2)")
            IN /\ avg.d # 0
               /\ avg.n * Len(call.area_data) = SumSeq(ret.growth) * avg.d

\* C6 witness: movement statistics are reported and some cell's first frame has
\* no area, so that its growth is not its last area minus its first.
C6_Witness ==
    /\ CultureReturned
    /\ Has(ret.stats, "Average Change in Cell Size (mm^2)")
    /\ \E k \in DOMAIN call.area_data :
          LET value == call.area_data[k][2]
          IN value[1] = 0 /\ ret.growth[k] # value[Len(value)] - value[1]

\* C7: an absent trajectory and an empty trajectory both fail with the
\* dedicated empty-input error.
C7_EmptyInputError ==
    (IndividualDone /\ (call.data.tag = "None" \/ call.data.items = <<>>))
    => ret.outcome = "Exception: Empy Data Set Given"

\* The angles a finished call computed with the reflected formula.
ComputedAngles ==
    IF IndividualReturned
    THEN {ret.angle_of_direction[j] : j \in DOMAIN ret.angle_of_direction} \cup
         {ret.final_angle}
    ELSE IF CultureDone
    THEN {ret.angle_of_direction[j] : j \in DOMAIN ret.angle_of_direction}
    ELSE {}

\* C8 as stated: every angle computed by the reflected formula lies in [0, 360).
C8_AnglesBelow360 == \A a \in ComputedAngles : 0 <= a /\ a < 360000

\* C8 amended: every angle computed by the reflected formula lies in (0, 360],
\* and a step with dy = 0 and dx >= 0 has the angle 360.
C8_AnglesAboveZeroUpTo360 ==
    /\ \A a \in ComputedAngles : 0 < a /\ a <= 360000
    /\ IndividualReturned =>
          \A j \in DOMAIN ret.angle_of_direction :
             LET from == call.data.items[j]
                 to == call.data.items[j + 1]
             IN (to[2] = from[2] /\ to[1] >= from[1])
                   => ret.angle_of_direction[j] = 360000

\* C8 witness: a step due east was given the angle 360.
C8_Witness ==
    /\ IndividualReturned
    /\ \E j \in DOMAIN ret.angle_of_direction :
          /\ call.data.items[j + 1][2] = call.data.items[j][2]
          /\ call.data.items[j + 1][1] > call.data.items[j][1]
          /\ ret.angle_of_direction[j] = 360000

Compass8 == <<"E", "NE", "N", "NW", "W", "SW", "S", "SE">>

\* k is an integer nearest to (n / d) / 45, n / d in thousandths of a degree
NearestSector(k, n, d) ==
    LET diff == n - 45000 * k * d
    IN 2 * Abs(diff) <= 45000 * d

\* The final angle of a report, as a fraction, and its compass label.
ReportedAngle ==
    IF IndividualReturned
    THEN Frac(Get(ret.stats,
                  "Angle of Direction between Origin and Final Point (degrees)").v, 1)
    ELSE Get(ret.stats,
             "Average Angle of Direction between Origin and Final Point (degrees)")
ReportedCompass ==
    IF IndividualReturned THEN Get(ret.stats, "Compass Direction Moved").s
    ELSE Get(ret.stats, "Average Compass Direction Moved").s
ReportsCompass ==
    \/ IndividualReturned
    \/ CultureReturned /\ Has(ret.stats, "Average Compass Direction Moved")

\* C9: the compass index round(angle / 45) of every reported final angle lies in
\* 0..8 and the label is the one of the eight directions at that index mod 8;
\* 0 degrees is "E", 45 degrees is "NE" and 360 degrees is "E".
C9_CompassInRange ==
    /\ ReportsCompass =>
          \E k \in 0..8 :
             /\ NearestSector(k, ReportedAngle.n, ReportedAngle.d)
             /\ ReportedCompass = Compass8[(k % 8) + 1]
    /\ ReportsCompass =>
          \A k \in (-2..10) \ (0..8) :
             ~NearestSector(k, ReportedAngle.n, ReportedAngle.d)
    /\ compass_brackets[CompassLookup(0, 1) + 1] = "E"
    /\ compass_brackets[CompassLookup(45000, 1) + 1] = "NE"
    /\ compass_brackets[CompassLookup(360000, 1) + 1] = "E"

\* C9 witness: the report of a culture whose cells moved, whose average final
\* angle is 360 degrees, labelled "E" by the ninth entry of the lookup.
C9_Witness ==
    /\ CultureReturned
    /\ ReportsCompass
    /\ Len(ret.angle_of_direction) >= 2
    /\ \A j \in DOMAIN ret.displacements : ret.displacements[j] > 0
    /\ ReportedAngle.n = 360000 * ReportedAngle.d
    /\ ReportedCompass = "E"

IsHeaderRow(row) == \A c \in DOMAIN row : row[c] \in ColumnNames
IsPrefix(s, t) == Len(s) <= Len(t) /\ \A i \in DOMAIN s : s[i] = t[i]

\* The rows of one call that returns: one per frame, a frame being an index of
\* the first column.
FrameRows(data) ==
    [i \in 1..Len(data[1][2]) |-> [c \in DOMAIN data |-> ToString(data[c][2][i])]]
KeysInOrder(data) == [c \in DOMAIN data |-> data[c][1]]

\* C10: on a .csv path that did not exist, the first call that returns leaves
\* the keys as the one header row followed by one row per frame; a later call
\* that returns appends one row per frame; no call changes an existing row; and
\* the file always holds exactly one header row, its first row.
C10_CsvHeaderOnceThenAppend ==
    [][/\ (call'.op = "individual_to_csv_file" /\ ret'.outcome = "return") =>
             /\ file'.tag = "file"
             /\ file'.rows = (IF file = NoFile THEN <<KeysInOrder(call'.data)>>
                              ELSE file.rows) \o FrameRows(call'.data)
       /\ file # NoFile => (file'.tag = "file" /\ IsPrefix(file.rows, file'.rows))
       /\ file' # NoFile =>
             /\ file'.rows # <<>>
             /\ file'.rows[1] = (IF file = NoFile THEN KeysInOrder(call'.data)
                                 ELSE file.rows[1])
             /\ IsHeaderRow(file'.rows[1])
             /\ \A i \in 2..Len(file'.rows) : ~IsHeaderRow(file'.rows[i])]_vars

\* C10 witness: a second call has returned after appending rows to the file
\* the first call created.
C10_Witness ==
    /\ call.op = "individual_to_csv_file"
    /\ ret.outcome = "return"
    /\ file # NoFile
    /\ Len(file.rows) > 1 + Len(call.data[1][2])
    /\ Len(call.data[1][2]) > 0

\* The greatest area value of a culture.
AllAreas(area_data) ==
    UNION {{area_data[k][2][i] : i \in DOMAIN area_data[k][2]} : k \in DOMAIN area_data}
GreatestOf(set) == CHOOSE v \in set : \A w \in set : w <= v

\* C13: for a trajectory of two or more points the reported final distance from
\* the origin is at most the reported maximum distance from the origin, the two
\* are equal when the distances from the origin never decrease from one frame
\* to the next, and for two points the total displacement equals both.
C13_FinalDistanceAtMostMaximum ==
    IndividualReturned =>
      LET data == call.data.items
          total == Get(ret.stats, "Total Displacement (mm)").v
          final == Get(ret.stats, "Final Distance from Origin (mm)").v
          maximum == Get(ret.stats, "Maximum Distance from Origin (mm)").v
          away == \A j \in 2..(Len(data) - 1) :
                     Dist(data[1], data[j]) <= Dist(data[1], data[j + 1])
      IN /\ Len(data) >= 2
         /\ final <= maximum
         /\ away => final = maximum
         /\ Len(data) = 2 => (total = final /\ final = maximum)

\* C13 witness: a cell that moved away from its origin and came back nearer,
\* so that its final distance is less than its maximum distance.
C13_Witness ==
    /\ IndividualReturned
    /\ Len(call.data.items) >= 3
    /\ 0 < Get(ret.stats, "Final Distance from Origin (mm)").v
    /\ Get(ret.stats, "Final Distance from Origin (mm)").v <
          Get(ret.stats, "Maximum Distance from Origin (mm)").v

\* C14: the largest cell reported for a culture with a positive area is the
\* greatest area value of all cells and frames, and its id is the first cell,
\* in the iteration order of the area dictionary, that holds that value.
C14_LargestIsFirstGreatestArea ==
    (CultureReturned /\ AllNonZeroAreas(call.area_data) # {})
    => LET greatest == GreatestOf(AllAreas(call.area_data))
       IN /\ Get(ret.stats, "Largest Cell (mm^2)") = IntVal(greatest)
          /\ Get(ret.stats, "Largest Cell's ID") =
                IntVal(FirstCellWith(call.area_data, greatest))

\* C14 witness: two cells attain the greatest area and the report names the
\* first of them.
C14_Witness ==
    /\ CultureReturned
    /\ Len(call.area_data) >= 2
    /\ LET greatest == GreatestOf(AllAreas(call.area_data))
       IN /\ greatest > 0
          /\ \A k \in 1..2 : greatest \in {call.area_data[k][2][i] :
                                             i \in DOMAIN call.area_data[k][2]}
          /\ Get(ret.stats, "Largest Cell's ID") = IntVal(call.area_data[1][1])

C12_ExportsAllOrNothing ==
    [][/\ ret'.outcome # "return" => (file' = file /\ workbook' = workbook)
       /\ (call'.op = "culture_to_excel_file" /\ ret'.outcome = "return") =>
             SheetCount(workbook') = SheetCount(workbook) + 3]_vars

SheetWriters ==
    {"coordinates_to_excel_file", "area_to_excel_file", "culture_stats_to_excel_file"}
Titles(wb) == [i \in DOMAIN wb.sheets |-> wb.sheets[i].title]

\* C15: a writer of one sheet that returns leaves, on a path that did not
\* exist, a workbook whose only sheet has the name asked for, and on a workbook
\* that exists the sheets it had followed by one new sheet; a call of
\* culture_to_excel_file that returns on a path that did not exist leaves the
\* sheets "Positions", "Areas", "Culture Stats", in that order.
C15_OnlyTheSheetAsked ==
    [][/\ (call'.op \in SheetWriters /\ ret'.outcome = "return") =>
             IF workbook = NoFile
             THEN Titles(workbook') = <<Title(call'.sheetname)>>
             ELSE /\ Len(workbook'.sheets) = Len(workbook.sheets) + 1
                  /\ IsPrefix(workbook.sheets, workbook'.sheets)
       /\ (call'.op = "culture_to_excel_file" /\ ret'.outcome = "return"
           /\ workbook = NoFile) =>
             Titles(workbook') =
                <<Title("Positions"), Title("Areas"), Title("Culture Stats")>>]_vars

====
